---- MODULE Spec2Model ----
(***************************************************************************)
(* PluginToolManager.invoke (api/core/plugin/impl/tool.py): the generator  *)
(* that reads the plugin daemon's stream of ToolInvokeMessage events,      *)
(* passes every event that is not a BLOB_CHUNK through, and reassembles    *)
(* BLOB_CHUNK events into BLOB messages, one buffer per chunk id.          *)
(*                                                                         *)
(* Byte strings (bytes, bytearray) are kept run-length encoded: a sequence *)
(* of runs [byte, count], no run empty, no two neighbouring runs of the    *)
(* same byte.  Every byte string has exactly one such encoding, so "=" on  *)
(* encodings is "==" on the byte strings, and strings of 8193 bytes or of  *)
(* 30 MiB cost as much as strings of two bytes.                            *)
(***************************************************************************)
EXTENDS Integers, Sequences, FiniteSets, TLC

\* The number of events the stream delivers in one invocation is capped.
MaxEvents == 4

\* ------------------------------------------------------------------------
\* bytes / bytearray

Run(b, n) == [byte |-> b, count |-> n]

\* len(b)
RECURSIVE Length(_)
Length(b) == IF b = <<>> THEN 0 ELSE Head(b).count + Length(Tail(b))

\* a + b
Concat(a, b) ==
    IF a = <<>> THEN b
    ELSE IF b = <<>> THEN a
    ELSE IF a[Len(a)].byte = Head(b).byte
         THEN SubSeq(a, 1, Len(a) - 1)
              \o <<Run(Head(b).byte, a[Len(a)].count + Head(b).count)>>
              \o Tail(b)
         ELSE a \o b

\* b[:k]
RECURSIVE Take(_, _)
Take(b, k) ==
    IF k <= 0 \/ b = <<>> THEN <<>>
    ELSE IF Head(b).count <= k
         THEN <<Head(b)>> \o Take(Tail(b), k - Head(b).count)
         ELSE <<Run(Head(b).byte, k)>>

\* b[k:]
RECURSIVE Drop(_, _)
Drop(b, k) ==
    IF b = <<>> THEN <<>>
    ELSE IF k <= 0 THEN b
    ELSE IF Head(b).count <= k
         THEN Drop(Tail(b), k - Head(b).count)
         ELSE <<Run(Head(b).byte, Head(b).count - k)>> \o Tail(b)

\* bytearray(n): n zero bytes
bytearray(n) == IF n = 0 THEN <<>> ELSE <<Run(0, n)>>

\* buf[lo:hi] = value, for 0 <= lo: the slice bounds are cut to len(buf), an
\* upper bound below the lower one counts as the lower one, and the slice is
\* replaced by value whatever its length.
SliceAssign(buf, lo, hi, value) ==
    Concat(Concat(Take(buf, lo), value), Drop(buf, IF hi < lo THEN lo ELSE hi))

\* ------------------------------------------------------------------------
\* the limits of invoke

FILE_LIMIT == 30 * 1024 * 1024

CHUNK_LIMIT == 8192

FileTooLargeError == "File is too large which reached the limit of 30MB"

ChunkTooLargeError == "File chunk is too large which reached the limit of 8KB"

\* ------------------------------------------------------------------------
\* ToolInvokeMessage events of the response stream

BlobChunkMessage(id, total_length, blob, end) ==
    [id |-> id, total_length |-> total_length, blob |-> blob, end |-> end]

BlobChunkEvent(id, total_length, blob, end, meta) ==
    [type |-> "BLOB_CHUNK",
     message |-> BlobChunkMessage(id, total_length, blob, end),
     meta |-> meta]

TextEvent(text, meta) ==
    [type |-> "TEXT", message |-> [text |-> text], meta |-> meta]

AB == <<Run(65, 1), Run(66, 1)>>
CD == <<Run(67, 1), Run(68, 1)>>
EF == <<Run(69, 1), Run(70, 1)>>

\* Two blobs whose chunks interleave, x made of "AB" and "CD", y of "EF",
\* every chunk declaring the length of two chunks; and two text messages.
InterleavedEvents ==
    { BlobChunkEvent("x", Length(AB) + Length(CD), blob, end, "m1") :
        blob \in {AB, CD}, end \in BOOLEAN }
    \cup { BlobChunkEvent("y", 2 * Length(EF), EF, end, "m1") :
        end \in BOOLEAN }
    \cup { TextEvent(t, "m1") : t \in {"t1", "t2"} }

\* One blob whose chunks differ in meta and in the total_length they declare
\* (none, or one byte short of two chunks).
DeclaredEvents ==
    { BlobChunkEvent("x", total_length, AB, end, meta) :
        total_length \in {0, 2 * Length(AB) - 1}, end \in BOOLEAN,
        meta \in {"m1", "m2"} }

\* One blob whose chunks sit on both sides of the two limits.
LimitEvents ==
    { BlobChunkEvent("x", 0, <<Run(90, n)>>, end, "m1") :
        n \in {CHUNK_LIMIT, CHUNK_LIMIT + 1, FILE_LIMIT, FILE_LIMIT + 1},
        end \in BOOLEAN }
    \cup { TextEvent("t1", "m1") }

\* What one invocation's stream is made of.
Vocabularies == {InterleavedEvents, DeclaredEvents, LimitEvents}

Events == UNION Vocabularies

Range(s) == {s[i] : i \in 1..Len(s)}

\* ------------------------------------------------------------------------
\* state

VARIABLES
    consumed,       \* the events the for loop has taken from response, in order
    files,          \* files: chunk id -> FileChunk
    output,         \* the messages invoke has yielded, in order
    emittedAt,      \* history: emittedAt[k] is the index in consumed of the
                    \* event during whose processing output[k] was yielded
    pc,             \* the generator: CREATED, RUNNING, SUSPENDED (at a yield)
                    \* or CLOSED (returned or raised)
    error,          \* the ValueError invoke raised, "none" before
    stopIteration   \* a next() of the consumer has ended in StopIteration

vars == <<consumed, files, output, emittedAt, pc, error, stopIteration>>

\* FileChunk with a buffer that starts empty instead of total_length long.
FileChunkUnsized(total_length) ==
    [bytes_written |-> 0, total_length |-> total_length, data |-> bytearray(0)]

\* FileChunk.__init__
FileChunk(total_length) ==
    [bytes_written |-> 0, total_length |-> total_length,
     data |-> bytearray(total_length)]

\* InitBuffer that also takes over the total_length of every later chunk.
InitBufferLatest(fs, msg) ==
    IF msg.id \in DOMAIN fs
    THEN [fs EXCEPT ![msg.id].total_length = msg.total_length]
    ELSE (msg.id :> FileChunk(msg.total_length)) @@ fs

\* if chunk_id not in files: files[chunk_id] = FileChunk(total_length)
InitBuffer(fs, msg) ==
    IF msg.id \in DOMAIN fs THEN fs
    ELSE (msg.id :> FileChunk(msg.total_length)) @@ fs

\* del files[chunk_id]
Delete(fs, id) == [c \in DOMAIN fs \ {id} |-> fs[c]]

\* The bytes written to all buffers.
RECURSIVE TotalWritten(_)
TotalWritten(fs) ==
    IF DOMAIN fs = {} THEN 0
    ELSE LET c == CHOOSE d \in DOMAIN fs : TRUE
         IN  fs[c].bytes_written + TotalWritten(Delete(fs, c))

\* AppendBlob with one write offset for all buffers instead of one per buffer.
AppendBlobSharedOffset(fs, msg) ==
    [fs EXCEPT ![msg.id] =
        [@ EXCEPT
            !.data = SliceAssign(@, TotalWritten(fs),
                                 TotalWritten(fs) + Length(msg.blob), msg.blob),
            !.bytes_written = @ + Length(msg.blob)]]

\* AppendBlob that writes every chunk at the start of the buffer.
AppendBlobAtStart(fs, msg) ==
    [fs EXCEPT ![msg.id] =
        [@ EXCEPT
            !.data = SliceAssign(@, 0, Length(msg.blob), msg.blob),
            !.bytes_written = @ + Length(msg.blob)]]

\* files[chunk_id].data[bytes_written : bytes_written + len(blob_data)] = blob_data
\* files[chunk_id].bytes_written += len(blob_data)
AppendBlob(fs, msg) ==
    [fs EXCEPT ![msg.id] =
        [@ EXCEPT
            !.data = SliceAssign(@, fs[msg.id].bytes_written,
                                 fs[msg.id].bytes_written + Length(msg.blob),
                                 msg.blob),
            !.bytes_written = @ + Length(msg.blob)]]

\* files[chunk_id].bytes_written + len(blob_data) > 30 * 1024 * 1024
FileTooLarge(fs, msg) ==
    fs[msg.id].bytes_written + Length(msg.blob) > FILE_LIMIT

\* ChunkTooLarge that compares with the limit of the file.
ChunkTooLargeWrongLimit(msg) == Length(msg.blob) > FILE_LIMIT

\* len(blob_data) > 8192
ChunkTooLarge(msg) == Length(msg.blob) > CHUNK_LIMIT

\* BlobMessageOf with the meta of the first chunk of the blob instead of the
\* meta of the chunk at hand.
BlobMessageFirstMeta(fs, resp) ==
    LET earlier == {i \in 1..Len(consumed) :
                      /\ consumed[i].type = "BLOB_CHUNK"
                      /\ consumed[i].message.id = resp.message.id}
        first == IF earlier = {} THEN resp
                 ELSE consumed[CHOOSE i \in earlier : \A j \in earlier : i <= j]
    IN  [type |-> "BLOB", message |-> [blob |-> fs[resp.message.id].data],
         meta |-> first.meta]

\* ToolInvokeMessage(type=BLOB, message=BlobMessage(blob=files[chunk_id].data),
\*                   meta=resp.meta); BlobMessage.blob is bytes, so the message
\* holds a copy of the buffer's content at the time of the yield.
BlobMessageOf(fs, resp) ==
    [type |-> "BLOB", message |-> [blob |-> fs[resp.message.id].data],
     meta |-> resp.meta]

Init ==
    /\ consumed = <<>>
    /\ files = <<>>
    /\ output = <<>>
    /\ emittedAt = <<>>
    /\ pc = "CREATED"
    /\ error = "none"
    /\ stopIteration = FALSE

\* response hands the for loop its next event: the loop is running, and the
\* stream stays within one vocabulary and within MaxEvents events.
Delivers(resp) ==
    /\ pc = "RUNNING"
    /\ Len(consumed) < MaxEvents
    /\ \E V \in Vocabularies : Range(consumed) \cup {resp} \subseteq V
    /\ consumed' = Append(consumed, resp)

\* next(): the consumer asks for the next message; a generator that has not
\* started or waits at a yield runs on.
Request ==
    /\ pc \in {"CREATED", "SUSPENDED"}
    /\ pc' = "RUNNING"
    /\ UNCHANGED <<consumed, files, output, emittedAt, error, stopIteration>>

\* next() on a generator that has returned or raised: StopIteration.
RequestClosed ==
    /\ pc = "CLOSED"
    /\ stopIteration' = TRUE
    /\ UNCHANGED <<consumed, files, output, emittedAt, pc, error>>

\* PassThrough without its yield: events that are not chunks are dropped.
PassThroughDropped(resp) ==
    /\ Delivers(resp)
    /\ resp.type # "BLOB_CHUNK"
    /\ UNCHANGED <<files, output, emittedAt, pc, error, stopIteration>>

\* PassThrough that runs on after its yield, taking the next event before the
\* consumer asks for it.
PassThroughEager(resp) ==
    /\ Delivers(resp)
    /\ resp.type # "BLOB_CHUNK"
    /\ output' = Append(output, resp)
    /\ emittedAt' = Append(emittedAt, Len(consumed) + 1)
    /\ UNCHANGED <<files, pc, error, stopIteration>>

\* else: yield resp
PassThrough(resp) ==
    /\ Delivers(resp)
    /\ resp.type # "BLOB_CHUNK"
    /\ output' = Append(output, resp)
    /\ emittedAt' = Append(emittedAt, Len(consumed) + 1)
    /\ pc' = "SUSPENDED"
    /\ UNCHANGED <<files, error, stopIteration>>

\* FinalChunk that checks the 8KB limit for the final chunk too.
FinalChunkGuarded(resp) ==
    /\ Delivers(resp)
    /\ resp.type = "BLOB_CHUNK"
    /\ resp.message.end
    /\ files' = InitBuffer(files, resp.message)
    /\ IF ChunkTooLarge(resp.message)
       THEN /\ error' = ChunkTooLargeError
            /\ pc' = "CLOSED"
            /\ UNCHANGED <<output, emittedAt, stopIteration>>
       ELSE /\ output' = Append(output, BlobMessageOf(files', resp))
            /\ emittedAt' = Append(emittedAt, Len(consumed) + 1)
            /\ pc' = "SUSPENDED"
            /\ UNCHANGED <<error, stopIteration>>

\* FinalChunk that writes the final chunk's data into the buffer before the
\* yield.
FinalChunkWritten(resp) ==
    /\ Delivers(resp)
    /\ resp.type = "BLOB_CHUNK"
    /\ resp.message.end
    /\ files' = AppendBlob(InitBuffer(files, resp.message), resp.message)
    /\ output' = Append(output, BlobMessageOf(files', resp))
    /\ emittedAt' = Append(emittedAt, Len(consumed) + 1)
    /\ pc' = "SUSPENDED"
    /\ UNCHANGED <<error, stopIteration>>

\* if is_end: yield the BLOB message of the buffer
FinalChunk(resp) ==
    /\ Delivers(resp)
    /\ resp.type = "BLOB_CHUNK"
    /\ resp.message.end
    /\ files' = InitBuffer(files, resp.message)
    /\ output' = Append(output, BlobMessageOf(files', resp))
    /\ emittedAt' = Append(emittedAt, Len(consumed) + 1)
    /\ pc' = "SUSPENDED"
    /\ UNCHANGED <<error, stopIteration>>

\* else, over the 30MB limit: del files[chunk_id]; raise ValueError
RaiseFileTooLarge(resp) ==
    /\ Delivers(resp)
    /\ resp.type = "BLOB_CHUNK"
    /\ ~resp.message.end
    /\ FileTooLarge(InitBuffer(files, resp.message), resp.message)
    /\ files' = Delete(InitBuffer(files, resp.message), resp.message.id)
    /\ error' = FileTooLargeError
    /\ pc' = "CLOSED"
    /\ UNCHANGED <<output, emittedAt, stopIteration>>

\* RaiseChunkTooLarge that notes the error and skips the chunk, the loop going
\* on with the next event.
RaiseChunkTooLargeSkipped(resp) ==
    /\ Delivers(resp)
    /\ resp.type = "BLOB_CHUNK"
    /\ ~resp.message.end
    /\ ~FileTooLarge(InitBuffer(files, resp.message), resp.message)
    /\ ChunkTooLarge(resp.message)
    /\ files' = InitBuffer(files, resp.message)
    /\ error' = ChunkTooLargeError
    /\ UNCHANGED <<output, emittedAt, pc, stopIteration>>

\* RaiseChunkTooLarge with the 8KB check not waiting for the 30MB check.
RaiseChunkTooLargeFirst(resp) ==
    /\ Delivers(resp)
    /\ resp.type = "BLOB_CHUNK"
    /\ ~resp.message.end
    /\ ChunkTooLarge(resp.message)
    /\ files' = InitBuffer(files, resp.message)
    /\ error' = ChunkTooLargeError
    /\ pc' = "CLOSED"
    /\ UNCHANGED <<output, emittedAt, stopIteration>>

\* else, over the 8KB limit: raise ValueError
RaiseChunkTooLarge(resp) ==
    /\ Delivers(resp)
    /\ resp.type = "BLOB_CHUNK"
    /\ ~resp.message.end
    /\ ~FileTooLarge(InitBuffer(files, resp.message), resp.message)
    /\ ChunkTooLarge(resp.message)
    /\ files' = InitBuffer(files, resp.message)
    /\ error' = ChunkTooLargeError
    /\ pc' = "CLOSED"
    /\ UNCHANGED <<output, emittedAt, stopIteration>>

\* AppendChunk that yields the buffer after every chunk, not only the final one.
AppendChunkYielded(resp) ==
    /\ Delivers(resp)
    /\ resp.type = "BLOB_CHUNK"
    /\ ~resp.message.end
    /\ ~FileTooLarge(InitBuffer(files, resp.message), resp.message)
    /\ ~ChunkTooLarge(resp.message)
    /\ files' = AppendBlob(InitBuffer(files, resp.message), resp.message)
    /\ output' = Append(output, BlobMessageOf(files', resp))
    /\ emittedAt' = Append(emittedAt, Len(consumed) + 1)
    /\ pc' = "SUSPENDED"
    /\ UNCHANGED <<error, stopIteration>>

\* else: append the blob data to the buffer, and take the next event
AppendChunk(resp) ==
    /\ Delivers(resp)
    /\ resp.type = "BLOB_CHUNK"
    /\ ~resp.message.end
    /\ ~FileTooLarge(InitBuffer(files, resp.message), resp.message)
    /\ ~ChunkTooLarge(resp.message)
    /\ files' = AppendBlob(InitBuffer(files, resp.message), resp.message)
    /\ UNCHANGED <<output, emittedAt, pc, error, stopIteration>>

\* EndOfStream that raises when a buffer holds fewer bytes than were declared.
EndOfStreamIncomplete ==
    /\ pc = "RUNNING"
    /\ pc' = "CLOSED"
    /\ IF \E c \in DOMAIN files : files[c].bytes_written < files[c].total_length
       THEN error' = "File is incomplete" /\ UNCHANGED stopIteration
       ELSE stopIteration' = TRUE /\ UNCHANGED error
    /\ UNCHANGED <<consumed, files, output, emittedAt>>

\* response is exhausted: the for loop ends and invoke returns.
EndOfStream ==
    /\ pc = "RUNNING"
    /\ pc' = "CLOSED"
    /\ stopIteration' = TRUE
    /\ UNCHANGED <<consumed, files, output, emittedAt, error>>

Next ==
    \/ Request
    \/ RequestClosed
    \/ EndOfStream
    \/ \E resp \in Events : PassThrough(resp)
    \/ \E resp \in Events : FinalChunk(resp)
    \/ \E resp \in Events : RaiseFileTooLarge(resp)
    \/ \E resp \in Events : RaiseChunkTooLarge(resp)
    \/ \E resp \in Events : AppendChunk(resp)

Spec == Init /\ [][Next]_vars

\* invoke run to its end on a whole list of events: the buffers it leaves, the
\* messages it yields and the error it raises.
RECURSIVE invoke(_)
invoke(response) ==
    IF response = <<>>
    THEN [files |-> <<>>, output |-> <<>>, error |-> "none"]
    ELSE LET before == invoke(SubSeq(response, 1, Len(response) - 1))
             resp == response[Len(response)]
             fs == InitBuffer(before.files, resp.message)
         IN  IF before.error # "none" THEN before
             ELSE IF resp.type # "BLOB_CHUNK"
                  THEN [before EXCEPT !.output = Append(@, resp)]
             ELSE IF resp.message.end
                  THEN [before EXCEPT !.files = fs,
                            !.output = Append(@, BlobMessageOf(fs, resp))]
             ELSE IF FileTooLarge(fs, resp.message)
                  THEN [before EXCEPT !.files = Delete(fs, resp.message.id),
                                      !.error = FileTooLargeError]
             ELSE IF ChunkTooLarge(resp.message)
                  THEN [before EXCEPT !.files = fs, !.error = ChunkTooLargeError]
             ELSE [before EXCEPT !.files = AppendBlob(fs, resp.message)]

TypeOK ==
    /\ pc \in {"CREATED", "RUNNING", "SUSPENDED", "CLOSED"}
    /\ error \in {"none", FileTooLargeError, ChunkTooLargeError}
    /\ Len(output) = Len(emittedAt)
    /\ Len(consumed) <= MaxEvents

\* ------------------------------------------------------------------------
\* reading the history

Indices == 1..Len(consumed)

IsChunk(i) == consumed[i].type = "BLOB_CHUNK"

IsChunkOf(c, i) == IsChunk(i) /\ consumed[i].message.id = c

IsFinal(i) == IsChunk(i) /\ consumed[i].message.end

Ids == {consumed[i].message.id : i \in {j \in Indices : IsChunk(j)}}

\* The positions in output of the messages yielded while event i was processed.
EmittedFor(i) == {k \in 1..Len(output) : emittedAt[k] = i}

\* The data of the chunks of c among the first n events, joined in arrival order.
RECURSIVE DataUpTo(_, _)
DataUpTo(c, n) ==
    IF n = 0 THEN <<>>
    ELSE IF IsChunkOf(c, n)
         THEN Concat(DataUpTo(c, n - 1), consumed[n].message.blob)
         ELSE DataUpTo(c, n - 1)

\* The bytes invoke has written for c when it takes event n + 1: every chunk
\* before it that is not final was appended, or invoke would have raised.
RECURSIVE WrittenUpTo(_, _)
WrittenUpTo(c, n) ==
    IF n = 0 THEN 0
    ELSE WrittenUpTo(c, n - 1)
         + (IF IsChunkOf(c, n) /\ ~IsFinal(n)
            THEN Length(consumed[n].message.blob) ELSE 0)

\* ------------------------------------------------------------------------
\* C1, multi-chunk reassembly: when the final chunk of an id arrives after one
\* or more chunks of that id, none of them final, invoke yields exactly one
\* BLOB message for it, whose content is the data of all these chunks, the
\* final one included, joined in arrival order.
C1_MultiChunkReassembly ==
    \A i \in Indices :
        ( /\ IsFinal(i)
          /\ \E j \in 1..(i - 1) : IsChunkOf(consumed[i].message.id, j)
          /\ \A j \in 1..(i - 1) :
                IsChunkOf(consumed[i].message.id, j) => ~IsFinal(j) )
        => /\ Cardinality(EmittedFor(i)) = 1
           /\ \A k \in EmittedFor(i) :
                /\ output[k].type = "BLOB"
                /\ output[k].message.blob = DataUpTo(consumed[i].message.id, i)

\* C2, single-chunk blob: when the first chunk of an id is final, invoke
\* yields exactly one message while processing it, a BLOB message whose
\* content is that chunk's data, of that chunk's length.
C2_SingleChunkBlob ==
    \A i \in Indices :
        ( /\ IsFinal(i)
          /\ \A j \in 1..(i - 1) : ~IsChunkOf(consumed[i].message.id, j) )
        => /\ Cardinality(EmittedFor(i)) = 1
           /\ \A k \in EmittedFor(i) :
                /\ output[k].type = "BLOB"
                /\ output[k].message.blob = consumed[i].message.blob
                /\ Length(output[k].message.blob)
                     = Length(consumed[i].message.blob)

\* The messages of the first k outputs that were yielded for events that are
\* not chunks, in output order.
RECURSIVE PassedOutput(_)
PassedOutput(k) ==
    IF k = 0 THEN <<>>
    ELSE IF IsChunk(emittedAt[k]) THEN PassedOutput(k - 1)
         ELSE Append(PassedOutput(k - 1), output[k])

NotChunk(resp) == resp.type # "BLOB_CHUNK"

\* C3, pass-through ordering: the messages yielded for events that are not
\* BLOB_CHUNK are these events themselves, each once, in the order they were
\* consumed; with no BLOB_CHUNK consumed the output is the input.
C3_PassThroughOrdering ==
    /\ PassedOutput(Len(output)) = SelectSeq(consumed, NotChunk)
    /\ (\A i \in Indices : ~IsChunk(i)) => output = consumed

\* Two different text messages have passed, with a blob yielded between them.
C3_Witness ==
    \E k1, k2, k3 \in 1..Len(output) :
        /\ k1 < k2 /\ k2 < k3
        /\ ~IsChunk(emittedAt[k1]) /\ IsChunk(emittedAt[k2])
        /\ ~IsChunk(emittedAt[k3])
        /\ output[k1] # output[k3]

\* C4, chunk-size limit: a BLOB_CHUNK event with more than 8192 bytes of data,
\* final or not, first of its blob or not, makes invoke raise the chunk-size
\* error at that event, and nothing is yielded for it or after it.
C4_ChunkSizeLimit ==
    \A i \in Indices :
        (IsChunk(i) /\ Length(consumed[i].message.blob) > CHUNK_LIMIT)
        => /\ i = Len(consumed)
           /\ error = ChunkTooLargeError
           /\ EmittedFor(i) = {}

\* C5, cumulative-size limit: invoke raises the blob-size error at a chunk
\* exactly when the bytes written for its id plus the length of its data
\* exceed 30 MiB, whatever total_length was declared.
C5_CumulativeSizeLimit ==
    /\ \A i \in Indices :
        ( /\ IsChunk(i)
          /\ WrittenUpTo(consumed[i].message.id, i - 1)
               + Length(consumed[i].message.blob) > FILE_LIMIT )
        => (i = Len(consumed) /\ error = FileTooLargeError)
    /\ error = FileTooLargeError
        => /\ consumed # <<>>
           /\ IsChunk(Len(consumed))
           /\ WrittenUpTo(consumed[Len(consumed)].message.id, Len(consumed) - 1)
                + Length(consumed[Len(consumed)].message.blob) > FILE_LIMIT

\* C6, fail-fast abort: the step that raises a size error yields nothing, so
\* the output is what the events before the faulting chunk produced; after it
\* no event is consumed and no message is yielded, and the generator stays
\* closed.
C6_FailFastAbort ==
    [][ /\ (error = "none" /\ error' # "none")
            => /\ output' = output
               /\ Len(consumed') = Len(consumed) + 1
               /\ \A k \in 1..Len(output') : emittedAt'[k] < Len(consumed')
               /\ pc' = "CLOSED"
        /\ error # "none"
            => /\ consumed' = consumed
               /\ output' = output
               /\ error' = error
               /\ pc' = "CLOSED" ]_vars

\* A size error was raised after messages had been yielded, and the consumer
\* has asked for more since.
C6_Witness ==
    /\ error # "none"
    /\ output # <<>>
    /\ stopIteration

\* C7, exactly-once emission at the terminal position: a consumed chunk with
\* end = true has exactly one BLOB message in the output and a chunk with
\* end = false has none; the output holds no other BLOB message; and every
\* message stands after those of earlier events and before those of later ones.
C7_ExactlyOnceEmission ==
    /\ \A i \in Indices :
        IsChunk(i) =>
            /\ Cardinality(EmittedFor(i)) = (IF IsFinal(i) THEN 1 ELSE 0)
            /\ \A k \in EmittedFor(i) : output[k].type = "BLOB"
    /\ Cardinality({k \in 1..Len(output) : output[k].type = "BLOB"})
         = Cardinality({i \in Indices : IsFinal(i)})
    /\ \A k1, k2 \in 1..Len(output) : k1 < k2 => emittedAt[k1] < emittedAt[k2]
    /\ \A k \in 1..Len(output) : emittedAt[k] \in Indices

\* A blob was yielded between two other messages, after a chunk that yielded
\* nothing.
C7_Witness ==
    \E k \in 2..(Len(output) - 1) :
        /\ IsFinal(emittedAt[k])
        /\ \E i \in 1..(emittedAt[k] - 1) : IsChunk(i) /\ ~IsFinal(i)

\* The messages among the first k outputs that were yielded for chunks of c.
RECURSIVE BlobsFor(_, _)
BlobsFor(c, k) ==
    IF k = 0 THEN <<>>
    ELSE IF IsChunkOf(c, emittedAt[k]) THEN Append(BlobsFor(c, k - 1), output[k])
         ELSE BlobsFor(c, k - 1)

\* The chunks of c among the consumed events, in arrival order.
ChunksOf(c) ==
    LET Of(resp) == resp.type = "BLOB_CHUNK" /\ resp.message.id = c
    IN  SelectSeq(consumed, Of)

\* The bytes that occur in a byte string.
BytesIn(b) == {b[r].byte : r \in 1..Len(b)}

\* C8, interleaved chunk ids: the BLOB messages yielded for an id are the ones
\* invoke yields when fed that id's chunks alone, and hold no byte of a chunk
\* of another id.
C8_InterleavedIndependence ==
    \A c \in Ids :
        /\ BlobsFor(c, Len(output)) = invoke(ChunksOf(c)).output
        /\ \A k \in 1..Len(output) :
            IsChunkOf(c, emittedAt[k]) =>
                \A d \in Ids \ {c} : \A i \in Indices :
                    IsChunkOf(d, i) =>
                        BytesIn(output[k].message.blob)
                            \cap BytesIn(consumed[i].message.blob) = {}

\* x1, y1, x2-final, y2-final: two blobs were yielded, each after a chunk of
\* its own id that was written while the other blob was pending.
C8_Witness ==
    \E i1, i2, i3, i4 \in Indices :
        /\ i1 < i2 /\ i2 < i3 /\ i3 < i4
        /\ IsChunk(i1) /\ ~IsFinal(i1) /\ IsChunk(i2) /\ ~IsFinal(i2)
        /\ consumed[i1].message.id # consumed[i2].message.id
        /\ IsFinal(i3) /\ consumed[i3].message.id = consumed[i1].message.id
        /\ IsFinal(i4) /\ consumed[i4].message.id = consumed[i2].message.id
        /\ EmittedFor(i3) # {} /\ EmittedFor(i4) # {}

\* The ids with chunks consumed and no final chunk among them.
Abandoned == {c \in Ids : \A i \in Indices : IsChunkOf(c, i) => ~IsFinal(i)}

\* C9, abandoned partial blob: when the stream ends while ids have chunks but
\* no final chunk, invoke returns with no error and without yielding, and no
\* BLOB message was ever yielded for such an id.
C9_AbandonedPartialBlob ==
    /\ [][ (pc = "RUNNING" /\ pc' = "CLOSED" /\ consumed' = consumed
                /\ Abandoned # {})
            => (error' = "none" /\ output' = output /\ stopIteration') ]_vars
    /\ [](\A c \in Abandoned : BlobsFor(c, Len(output)) = <<>>)

\* The stream has ended with bytes written for an id that never had a final
\* chunk.
C9_Witness ==
    /\ pc = "CLOSED"
    /\ error = "none"
    /\ stopIteration
    /\ \E c \in Abandoned : c \in DOMAIN files /\ files[c].bytes_written > 0

\* C10, metadata propagation: every BLOB message yielded for a chunk carries
\* the meta of that chunk, which is a final chunk.
C10_MetadataPropagation ==
    \A k \in 1..Len(output) :
        IsChunk(emittedAt[k]) =>
            /\ IsFinal(emittedAt[k])
            /\ output[k].type = "BLOB"
            /\ output[k].meta = consumed[emittedAt[k]].meta

\* A blob was yielded whose final chunk has another meta than an earlier chunk
\* of its id.
C10_Witness ==
    \E k \in 1..Len(output) :
        /\ IsFinal(emittedAt[k])
        /\ \E i \in 1..(emittedAt[k] - 1) :
            /\ IsChunkOf(consumed[emittedAt[k]].message.id, i)
            /\ consumed[i].meta # consumed[emittedAt[k]].meta
            /\ consumed[i].meta # output[k].meta

\* C11, pending-blob lifecycle: files holds an entry only for an id a chunk
\* was consumed for, and right after a chunk with end = true has been
\* processed files holds no entry for its id.
C11_PendingBlobLifecycle ==
    /\ \A c \in DOMAIN files : \E i \in Indices : IsChunkOf(c, i)
    /\ (consumed # <<>> /\ IsFinal(Len(consumed)))
        => consumed[Len(consumed)].message.id \notin DOMAIN files

\* The chunks of c among events j + 1 .. i, in arrival order.
ChunksBetween(c, j, i) ==
    LET Of(resp) == resp.type = "BLOB_CHUNK" /\ resp.message.id = c
    IN  SelectSeq(SubSeq(consumed, j + 1, i), Of)

\* C12, a chunk after completion starts a fresh blob: the BLOB yielded for a
\* final chunk that follows an earlier final chunk of its id is the one invoke
\* yields for the chunks after that earlier final chunk alone, with nothing
\* of the chunks before it.
C12_FreshBlobAfterCompletion ==
    \A i \in Indices : \A j \in 1..(i - 1) :
        ( /\ IsFinal(i) /\ IsFinal(j)
          /\ consumed[j].message.id = consumed[i].message.id
          /\ \A m \in (j + 1)..(i - 1) :
                IsChunkOf(consumed[i].message.id, m) => ~IsFinal(m) )
        => \A k \in EmittedFor(i) :
            LET alone == invoke(ChunksBetween(consumed[i].message.id, j, i)).output
            IN  output[k] = alone[Len(alone)]

\* The first chunk of c among the consumed events.
FirstOf(c) ==
    CHOOSE i \in Indices :
        IsChunkOf(c, i) /\ \A j \in 1..(i - 1) : ~IsChunkOf(c, j)

Max(a, b) == IF a < b THEN b ELSE a

\* C13 as stated, emitted length is the written length: a yielded BLOB is as
\* long as the bytes written for its id, so shorter than the declared
\* total_length when fewer bytes were written.
C13_EmittedLengthIsWritten ==
    \A k \in 1..Len(output) :
        IsFinal(emittedAt[k]) =>
            Length(output[k].message.blob)
                = WrittenUpTo(consumed[emittedAt[k]].message.id, emittedAt[k])

\* C13 as amended: a yielded BLOB is as long as the larger of the total_length
\* declared by the first chunk of its id and the bytes written for that id;
\* with fewer bytes written than declared it is total_length long, never
\* shorter.
C13_EmittedLengthPadded ==
    \A k \in 1..Len(output) :
        IsFinal(emittedAt[k]) =>
            LET c == consumed[emittedAt[k]].message.id
            IN  Length(output[k].message.blob)
                    = Max(consumed[FirstOf(c)].message.total_length,
                          WrittenUpTo(c, emittedAt[k]))

\* A blob was yielded after fewer bytes, but some, were written than declared.
C13_Witness ==
    \E k \in 1..Len(output) :
        /\ IsFinal(emittedAt[k])
        /\ LET c == consumed[emittedAt[k]].message.id
               w == WrittenUpTo(c, emittedAt[k])
           IN  /\ 0 < w
               /\ w < consumed[FirstOf(c)].message.total_length
               /\ Length(output[k].message.blob) > w

\* C14, guard precedence: for a chunk with end = false, the blob-size error is
\* raised exactly when written + len(data) exceeds 30 MiB, the chunk-size
\* error exactly when it does not and len(data) exceeds 8192; the blob-size
\* error leaves no entry for the id, the chunk-size error leaves it.
C14_GuardPrecedence ==
    \A i \in Indices :
        (IsChunk(i) /\ ~IsFinal(i)) =>
            LET c == consumed[i].message.id
                total == WrittenUpTo(c, i - 1) + Length(consumed[i].message.blob)
                large == Length(consumed[i].message.blob) > CHUNK_LIMIT
                raised == IF i = Len(consumed) THEN error ELSE "none"
            IN  /\ (total > FILE_LIMIT) <=> (raised = FileTooLargeError)
                /\ (total <= FILE_LIMIT /\ large) <=> (raised = ChunkTooLargeError)
                /\ raised = FileTooLargeError => c \notin DOMAIN files
                /\ raised = ChunkTooLargeError => c \in DOMAIN files

\* A chunk over both limits has failed with the blob-size error.
C14_Witness ==
    /\ error = FileTooLargeError
    /\ Length(consumed[Len(consumed)].message.blob) > CHUNK_LIMIT
    /\ consumed[Len(consumed)].message.id \notin DOMAIN files

\* C15, total_length is fixed at first sighting: an entry's total_length is
\* the total_length of the first chunk consumed for its id, and its buffer is
\* that long unless more bytes were written.
C15_TotalLengthFixed ==
    \A c \in DOMAIN files :
        /\ files[c].total_length = consumed[FirstOf(c)].message.total_length
        /\ Length(files[c].data)
             = Max(consumed[FirstOf(c)].message.total_length,
                   files[c].bytes_written)

\* An entry has seen a later chunk that declares another total_length.
C15_Witness ==
    \E c \in DOMAIN files : \E i \in Indices :
        /\ IsChunkOf(c, i)
        /\ consumed[i].message.total_length # files[c].total_length
        /\ consumed[i].message.total_length > files[c].bytes_written

\* C16, offset writes: the step that accepts a chunk of n bytes into an entry
\* with w bytes written leaves data[w : w + n] equal to the chunk's data,
\* data[:w] and data[w + n:] as they were, and bytes_written at w + n; and
\* no step lowers the bytes_written of an entry.
C16_OffsetWrites ==
    [][ /\ ( /\ Len(consumed') = Len(consumed) + 1
             /\ consumed'[Len(consumed')].type = "BLOB_CHUNK"
             /\ ~consumed'[Len(consumed')].message.end
             /\ error' = "none" )
            => LET msg == consumed'[Len(consumed')].message
                   old == IF msg.id \in DOMAIN files THEN files[msg.id]
                          ELSE FileChunk(msg.total_length)
                   w == old.bytes_written
                   n == Length(msg.blob)
                   new == files'[msg.id]
               IN  /\ Take(Drop(new.data, w), n) = msg.blob
                   /\ Take(new.data, w) = Take(old.data, w)
                   /\ Drop(new.data, w + n) = Drop(old.data, w + n)
                   /\ new.bytes_written = w + n
        /\ \A c \in DOMAIN files \cap DOMAIN files' :
                files'[c].bytes_written >= files[c].bytes_written ]_vars

\* A chunk was written behind earlier bytes of its entry.
C16_Witness ==
    /\ error = "none"
    /\ consumed # <<>>
    /\ IsChunk(Len(consumed)) /\ ~IsFinal(Len(consumed))
    /\ LET msg == consumed[Len(consumed)].message
       IN  /\ files[msg.id].bytes_written > Length(msg.blob)
           /\ Drop(files[msg.id].data,
                   files[msg.id].bytes_written - Length(msg.blob)) = msg.blob

\* C17, pull-based laziness: nothing is consumed before the first request;
\* events are taken only while a request is served, the request itself takes
\* none, and the event that yields a message or raises ends the request, so
\* that a suspended generator has read nothing past the event of its last
\* message.
C17_PullBasedLaziness ==
    /\ [](pc = "CREATED" => (consumed = <<>> /\ output = <<>>))
    /\ [](pc = "SUSPENDED"
            => (output # <<>> /\ emittedAt[Len(output)] = Len(consumed)))
    /\ [][ /\ consumed' # consumed
                => (pc = "RUNNING" /\ Len(consumed') = Len(consumed) + 1)
           /\ (output' # output \/ error' # error)
                => (pc' # "RUNNING" /\ consumed' # consumed)
           /\ (pc # "RUNNING" /\ pc' = "RUNNING") => consumed' = consumed ]_vars

\* One request has taken a chunk that yields nothing and then the event that
\* yields, with more of the stream to come.
C17_Witness ==
    /\ pc = "SUSPENDED"
    /\ Len(consumed) >= 2 /\ Len(consumed) < MaxEvents
    /\ IsChunk(Len(consumed) - 1) /\ ~IsFinal(Len(consumed) - 1)
    /\ emittedAt[Len(output)] = Len(consumed)

\* C18, final chunks bypass both guards: invoke raises only while processing
\* a chunk with end = false; every chunk with end = true, whatever its length
\* and the bytes written for its id, yields its BLOB with no error.
C18_FinalChunksBypassGuards ==
    /\ error # "none"
        => (consumed # <<>> /\ IsChunk(Len(consumed)) /\ ~IsFinal(Len(consumed)))
    /\ \A i \in Indices :
        IsFinal(i) => (EmittedFor(i) # {} /\ (i = Len(consumed) => error = "none"))

\* A final chunk over both limits was processed, after bytes were written for
\* its id, and its BLOB yielded.
C18_Witness ==
    \E i \in Indices :
        /\ IsFinal(i)
        /\ Length(consumed[i].message.blob) > FILE_LIMIT
        /\ WrittenUpTo(consumed[i].message.id, i) > 0
        /\ EmittedFor(i) # {}
        /\ error = "none"

\* The data of the chunks of c with end = false among the first n events,
\* joined in arrival order.
RECURSIVE WrittenDataUpTo(_, _)
WrittenDataUpTo(c, n) ==
    IF n = 0 THEN <<>>
    ELSE IF IsChunkOf(c, n) /\ ~IsFinal(n)
         THEN Concat(WrittenDataUpTo(c, n - 1), consumed[n].message.blob)
         ELSE WrittenDataUpTo(c, n - 1)

\* C19, shape of the emitted buffer: a yielded BLOB is the data of the end =
\* false chunks of its id, in arrival order, followed by zero bytes up to the
\* total_length the first chunk declared; the final chunk's data is no part
\* of it.
C19_EmittedBufferShape ==
    \A k \in 1..Len(output) :
        IsFinal(emittedAt[k]) =>
            LET c == consumed[emittedAt[k]].message.id
                written == WrittenDataUpTo(c, emittedAt[k])
                declared == consumed[FirstOf(c)].message.total_length
            IN  output[k].message.blob
                    = Concat(written,
                             bytearray(Max(0, declared - Length(written))))

\* A blob was yielded that holds written bytes and padding, for a final chunk
\* that carried data.
C19_Witness ==
    \E k \in 1..Len(output) :
        /\ IsFinal(emittedAt[k])
        /\ consumed[emittedAt[k]].message.blob # <<>>
        /\ LET c == consumed[emittedAt[k]].message.id
               written == WrittenDataUpTo(c, emittedAt[k])
           IN  /\ written # <<>>
               /\ Length(written) < consumed[FirstOf(c)].message.total_length
               /\ output[k].message.blob # written

\* The events invoke has processed without raising.
Accepted == IF error = "none" THEN Len(consumed) ELSE Len(consumed) - 1

====
